---- MODULE Spec2Model ----
(***************************************************************************)
(* DASS-21 scoring service: the /api/score and /api/assessments routes of  *)
(* main.py together with the DASSAssessment / DASSResult schemas.          *)
(*                                                                         *)
(* Python values are encoded as follows: a list is a sequence (Python      *)
(* index i is TLA+ index i+1), a dict or model is a record / function on   *)
(* strings, Optional[T] is <<>> for None and <<x>> for a value x.          *)
(***************************************************************************)
EXTENDS Integers, Sequences, FiniteSets, TLC

VARIABLES
    request,    \* body of the last POST /api/score (NoRequest before the first)
    response,   \* what the last operation gave back to the client
    calls,      \* collaborator calls made by the last operation, in order
    store,      \* documents of the "dassassessment" collection, insertion order
    earlier,    \* history: one remembered earlier scoring (answers, result, ...)
    score,      \* severity_for under test: its score argument
    bands,      \* severity_for under test: its band table argument
    scan        \* severity_for under test: outcome of the scan (None before)

vars == <<request, response, calls, store, earlier, score, bands, scan>>

None == <<>>
Some(x) == <<x>>

(***************************************************************************)
(* Bounds of the model.                                                    *)
(***************************************************************************)
MaxDocs == 2

(***************************************************************************)
(* schemas.py                                                              *)
(***************************************************************************)
min_items == 21
max_items == 21
age_ge == 5
age_le == 120

\* class DASSAssessment: the constraints pydantic enforces on a request body
\* (answers: List[int] with min_items/max_items, age: Optional[int] ge/le).
DASSAssessment(body) ==
    /\ Len(body.answers) >= min_items
    /\ Len(body.answers) <= max_items
    /\ (body.age # None => (body.age[1] >= age_ge /\ body.age[1] <= age_le))

\* class DASSResult: the constructor, assessment_id defaulting to None.
DASSResult(dep, anx, stress, dep_sev, anx_sev, stress_sev, total) ==
    [depression_score |-> dep,
     anxiety_score |-> anx,
     stress_score |-> stress,
     depression_severity |-> dep_sev,
     anxiety_severity |-> anx_sev,
     stress_severity |-> stress_sev,
     total_score |-> total,
     assessment_id |-> None]

(***************************************************************************)
(* main.py: scoring configuration                                          *)
(***************************************************************************)
\* DEPRESSION_IDX with item 3 mistyped as item 2 (an anxiety item)
DEPRESSION_IDX_typo == <<2, 5, 10, 13, 16, 17, 21>>
DEPRESSION_IDX == <<3, 5, 10, 13, 16, 17, 21>>
ANXIETY_IDX == <<2, 4, 7, 9, 15, 19, 20>>
\* STRESS_IDX with item 18 mistyped as a second item 14
STRESS_IDX_typo == <<1, 6, 8, 11, 12, 14, 14>>
STRESS_IDX == <<1, 6, 8, 11, 12, 14, 18>>

\* [i-1 for i in ...]: 0-based Python positions
DEP_I == [k \in 1..Len(DEPRESSION_IDX) |-> DEPRESSION_IDX[k] - 1]
ANX_I == [k \in 1..Len(ANXIETY_IDX) |-> ANXIETY_IDX[k] - 1]
STR_I == [k \in 1..Len(STRESS_IDX) |-> STRESS_IDX[k] - 1]

\* DEP_THRESH with the Normal band reaching 5
DEP_THRESH_normal5 ==
    << <<0, 5, "Normal">>, <<5, 6, "Mild">>, <<7, 10, "Moderate">>,
       <<11, 13, "Severe">>, <<14, 42, "Extremely Severe">> >>
DEP_THRESH ==
    << <<0, 4, "Normal">>, <<5, 6, "Mild">>, <<7, 10, "Moderate">>,
       <<11, 13, "Severe">>, <<14, 42, "Extremely Severe">> >>
ANX_THRESH ==
    << <<0, 3, "Normal">>, <<4, 5, "Mild">>, <<6, 7, "Moderate">>,
       <<8, 9, "Severe">>, <<10, 42, "Extremely Severe">> >>
STR_THRESH ==
    << <<0, 7, "Normal">>, <<8, 9, "Mild">>, <<10, 12, "Moderate">>,
       <<13, 16, "Severe">>, <<17, 42, "Extremely Severe">> >>

\* severity_scan with the upper end of a band taken as exclusive
RECURSIVE severity_scan_exclusive(_, _, _)
severity_scan_exclusive(s, table, k) ==
    IF k > Len(table)
    THEN [label |-> table[Len(table)][3], matched |-> 0]
    ELSE IF table[k][1] <= s /\ s < table[k][2]
         THEN [label |-> table[k][3], matched |-> k]
         ELSE severity_scan_exclusive(s, table, k + 1)

\* The for loop of severity_for from band k on: the first band whose inclusive
\* range holds the score (matched = its position), else the fallback
\* bands[-1][2] (matched = 0).
RECURSIVE severity_scan(_, _, _)
severity_scan(s, table, k) ==
    IF k > Len(table)
    THEN [label |-> table[Len(table)][3], matched |-> 0]
    ELSE IF table[k][1] <= s /\ s <= table[k][2]
         THEN [label |-> table[k][3], matched |-> k]
         ELSE severity_scan(s, table, k + 1)

severity_for(s, table) == severity_scan(s, table, 1).label

\* answers[i] with a 0-based Python index
Item(answers, i) == answers[i + 1]

\* sum(answers[i] for i in idx), from position k of idx on
RECURSIVE SumAt(_, _, _)
SumAt(answers, idx, k) ==
    IF k > Len(idx) THEN 0
    ELSE Item(answers, idx[k]) + SumAt(answers, idx, k + 1)

\* sum(answers), from position k on
RECURSIVE SumFrom(_, _)
SumFrom(answers, k) ==
    IF k > Len(answers) THEN 0 ELSE answers[k] + SumFrom(answers, k + 1)

NumItems == 21
AnswerValues == {0, 1, 2, 3}
status_code == 400

\* BadAnswers with the range test off by one (4 passes)
BadAnswers_upto4(answers) ==
    \/ Len(answers) # NumItems
    \/ \E k \in 1..Len(answers) : answers[k] \notin AnswerValues \cup {4}

\* the condition of the if in score_dass that raises the HTTPException
BadAnswers(answers) ==
    \/ Len(answers) # NumItems
    \/ \E k \in 1..Len(answers) : answers[k] \notin AnswerValues

\* dep_of doubled, as the 42-item scale's thresholds would need
dep_of_doubled(answers) == 2 * SumAt(answers, DEP_I, 1)
dep_of(answers) == SumAt(answers, DEP_I, 1)
\* anx_of carrying over a count kept across requests
anx_of_stateful(answers) == SumAt(answers, ANX_I, 1) + Len(store)
anx_of(answers) == SumAt(answers, ANX_I, 1)
stress_of(answers) == SumAt(answers, STR_I, 1)

\* result = DASSResult(...) as score_dass builds it
result_of(answers) ==
    DASSResult(dep_of(answers), anx_of(answers), stress_of(answers),
               severity_for(dep_of(answers), DEP_THRESH),
               severity_for(anx_of(answers), ANX_THRESH),
               severity_for(stress_of(answers), STR_THRESH),
               SumFrom(answers, 1))

\* dict.update: the entries of e override those of d
Update(d, e) == e @@ d

\* assessment.model_dump()
model_dump(assessment) ==
    [student_name |-> assessment.student_name,
     student_email |-> assessment.student_email,
     age |-> assessment.age,
     context |-> assessment.context,
     answers |-> assessment.answers]

\* doc_of storing the depression score as the total
doc_of_wrong_total(assessment, result) ==
    Update(model_dump(assessment),
           [depression_score |-> dep_of(assessment.answers),
            anxiety_score |-> anx_of(assessment.answers),
            stress_score |-> stress_of(assessment.answers),
            depression_severity |-> result.depression_severity,
            anxiety_severity |-> result.anxiety_severity,
            stress_severity |-> result.stress_severity,
            total_score |-> result.depression_score])

\* doc = assessment.model_dump(); doc.update({...})
doc_of(assessment, result) ==
    Update(model_dump(assessment),
           [depression_score |-> dep_of(assessment.answers),
            anxiety_score |-> anx_of(assessment.answers),
            stress_score |-> stress_of(assessment.answers),
            depression_severity |-> result.depression_severity,
            anxiety_severity |-> result.anxiety_severity,
            stress_severity |-> result.stress_severity,
            total_score |-> result.total_score])

Collection == "dassassessment"

(***************************************************************************)
(* The persistence collaborator (module database).                         *)
(***************************************************************************)
ObjectId(k) == [oid |-> k]
\* str(ObjectId)
str(o) == "oid" \o ToString(o.oid)

\* create_document on a reachable store: the document as inserted and the
\* identity string handed back.
inserted_doc(doc) == Update(doc, "_id" :> ObjectId(Len(store) + 1))
inserted_id(doc) == str(inserted_doc(doc)["_id"])

\* get_documents(collection, limit=limit) on a reachable store
get_documents(limit) ==
    SubSeq(store, 1, IF limit < Len(store) THEN limit ELSE Len(store))

\* for d in docs: if "_id" in d: d["_id"] = str(d["_id"])
stringify(d) ==
    IF "_id" \in DOMAIN d THEN [d EXCEPT !["_id"] = str(d["_id"])] ELSE d

(***************************************************************************)
(* Responses and the log of collaborator calls.                            *)
(***************************************************************************)
NoRequest == [kind |-> "none"]
NoResponse == [kind |-> "none"]
ValidationError == [kind |-> "validation_error"]
HTTPException ==
    [kind |-> "http_exception",
     status_code |-> status_code,
     detail |-> "answers must be 21 integers each 0-3"]
Returned(result) == [kind |-> "result", result |-> result]
Documents(docs) == [kind |-> "documents", docs |-> docs]

Call(fn, arg, raised, returned) ==
    [fn |-> fn, collection |-> Collection, arg |-> arg,
     raised |-> raised, returned |-> returned]

(***************************************************************************)
(* Operations.                                                             *)
(***************************************************************************)
\* POST /api/score with a body the DASSAssessment schema refuses: the
\* framework answers with the validation error and score_dass does not run.
RejectBody(body) ==
    /\ ~DASSAssessment(body)
    /\ request' = body
    /\ response' = ValidationError
    /\ calls' = <<>>
    /\ UNCHANGED store

\* skip_persistence without the except clause: the failure reaches the client
skip_persistence_uncaught(result) == [kind |-> "internal_error"]

\* except Exception: pass, then return result
skip_persistence(result) == Returned(result)

\* score_dass(assessment); db_up says whether create_document succeeds
\* (it cannot once the store holds MaxDocs documents).
score_dass(assessment, db_up) ==
    /\ DASSAssessment(assessment)
    /\ db_up => Len(store) < MaxDocs
    /\ request' = assessment
    /\ IF BadAnswers(assessment.answers)
       THEN /\ response' = HTTPException
            /\ calls' = <<>>
            /\ UNCHANGED store
       ELSE LET result == result_of(assessment.answers)
                doc == doc_of(assessment, result)
            IN  IF db_up
                THEN /\ calls' = <<Call("create_document", doc, FALSE,
                                        Some(inserted_id(doc)))>>
                     /\ store' = Append(store, inserted_doc(doc))
                     /\ response' = Returned(
                            [result EXCEPT !.assessment_id = Some(inserted_id(doc))])
                ELSE /\ calls' = <<Call("create_document", doc, TRUE, None)>>
                     /\ UNCHANGED store
                     /\ response' = skip_persistence(result)

\* list_assessments without the except clause
list_assessments_uncaught(limit, db_up) ==
    /\ request' = NoRequest
    /\ UNCHANGED store
    /\ IF db_up
       THEN LET docs == get_documents(limit)
            IN  /\ calls' = <<Call("get_documents", limit, FALSE, docs)>>
                /\ response' = Documents([k \in 1..Len(docs) |-> stringify(docs[k])])
       ELSE /\ calls' = <<Call("get_documents", limit, TRUE, None)>>
            /\ response' = [kind |-> "internal_error"]

default_limit == 20

\* list_assessments(limit); db_up says whether get_documents succeeds
list_assessments(limit, db_up) ==
    /\ request' = NoRequest
    /\ UNCHANGED store
    /\ IF db_up
       THEN LET docs == get_documents(limit)
            IN  /\ calls' = <<Call("get_documents", limit, FALSE, docs)>>
                /\ response' = Documents([k \in 1..Len(docs) |-> stringify(docs[k])])
       ELSE /\ calls' = <<Call("get_documents", limit, TRUE, None)>>
            /\ response' = Documents(<<>>)

(***************************************************************************)
(* Inputs.                                                                 *)
(***************************************************************************)
\* n answers of value v followed by answers of value w
Step(n, v, w) == [i \in 1..NumItems |-> IF i <= n THEN v ELSE w]

Steps(cuts, vals) == {Step(n, v, w) : n \in cuts, v \in vals, w \in vals}

BadValues == {-1, 4}

\* ill-formed variants of an answer list: one answer short, one too many,
\* an out-of-range value in the first or the last place
Spoil(a) ==
    {SubSeq(a, 1, Len(a) - 1), Append(a, a[1])}
        \cup {[a EXCEPT ![p] = b] : p \in {1, Len(a)}, b \in BadValues}

Anonymous ==
    [student_name |-> None, student_email |-> None, age |-> None, context |-> None]
Named(age) ==
    [student_name |-> Some("Ann"), student_email |-> Some("ann@example.org"),
     age |-> Some(age), context |-> Some("class 1")]

Body(meta, answers) ==
    [student_name |-> meta.student_name,
     student_email |-> meta.student_email,
     age |-> meta.age,
     context |-> meta.context,
     answers |-> answers]

HalfWay == NumItems \div 2

\* service runs: few answer lists, with and without metadata, one age the
\* schema refuses
Answers == Steps({HalfWay}, {0, 3}) \cup Spoil(Step(0, 3, 3))
Requests ==
    {Body(m, a) : m \in {Anonymous, Named(age_ge), Named(age_le + 1)}, a \in Answers}
Limits == {1, default_limit}

\* scoring runs: every step pattern over the answer scale and its ill-formed
\* variants
WideAnswers ==
    Steps(0..NumItems, AnswerValues)
        \cup UNION {Spoil(a) : a \in Steps(0..NumItems, AnswerValues)}
WideRequests == {Body(Anonymous, a) : a \in WideAnswers}

\* history runs: well-formed requests only
SeqRequests ==
    {Body(m, a) : m \in {Anonymous, Named(age_ge)},
                  a \in {Step(HalfWay, 3, 0), Step(HalfWay, 0, 3)}}

MaxSubscale == Len(DEP_I) * 3
Tables == {DEP_THRESH, ANX_THRESH, STR_THRESH}

(***************************************************************************)
(* Specification of the service: any sequence of POST /api/score and       *)
(* GET /api/assessments.                                                   *)
(***************************************************************************)
Idle == score = 0 /\ bands = <<>> /\ scan = None

Init ==
    /\ request = NoRequest
    /\ response = NoResponse
    /\ calls = <<>>
    /\ store = <<>>
    /\ earlier = None
    /\ Idle

PostRejected ==
    \E body \in Requests : RejectBody(body) /\ UNCHANGED <<earlier, score, bands, scan>>

PostScore ==
    \E body \in Requests, db_up \in BOOLEAN :
        score_dass(body, db_up) /\ UNCHANGED <<earlier, score, bands, scan>>

GetAssessments ==
    \E limit \in Limits, db_up \in BOOLEAN :
        list_assessments(limit, db_up) /\ UNCHANGED <<earlier, score, bands, scan>>

Next == PostRejected \/ PostScore \/ GetAssessments

Spec == Init /\ [][Next]_vars

(***************************************************************************)
(* Specification of scoring: one request out of the wide family is         *)
(* received and answered.                                                  *)
(***************************************************************************)
ScoreInit ==
    /\ request \in WideRequests
    /\ response = NoResponse
    /\ calls = <<>>
    /\ store = <<>>
    /\ earlier = None
    /\ Idle

RejectOne ==
    /\ response = NoResponse
    /\ RejectBody(request)
    /\ UNCHANGED <<earlier, score, bands, scan>>

ScoreOne ==
    /\ response = NoResponse
    /\ \E db_up \in BOOLEAN : score_dass(request, db_up)
    /\ UNCHANGED <<earlier, score, bands, scan>>

ScoreNext == RejectOne \/ ScoreOne

ScoreSpec == ScoreInit /\ [][ScoreNext]_vars

(***************************************************************************)
(* Specification of severity_for: one score of the subscale domain is      *)
(* classified against one band table.                                      *)
(***************************************************************************)
SeverityInit ==
    /\ request = NoRequest
    /\ response = NoResponse
    /\ calls = <<>>
    /\ store = <<>>
    /\ earlier = None
    /\ score \in 0..MaxSubscale
    /\ bands \in Tables
    /\ scan = None

Classify ==
    /\ scan = None
    /\ scan' = Some(severity_scan(score, bands, 1))
    /\ UNCHANGED <<request, response, calls, store, earlier, score, bands>>

SeverityNext == Classify

SeveritySpec == SeverityInit /\ [][SeverityNext]_vars

(***************************************************************************)
(* Specification of request histories: well-formed requests, one earlier   *)
(* scoring being remembered together with whether a request with other     *)
(* answers was scored since.                                               *)
(***************************************************************************)
Remembered(req, resp) == [request |-> req, result |-> resp.result, between |-> FALSE]

Remember(body) ==
    earlier' \in
        (IF earlier = None THEN {None}
         ELSE {Some([earlier[1] EXCEPT
                        !.between = @ \/ body.answers # earlier[1].request.answers])})
        \cup (IF response.kind = "result"
              THEN {Some(Remembered(request, response))}
              ELSE {})

SeqPostScore ==
    \E body \in SeqRequests, db_up \in BOOLEAN :
        score_dass(body, db_up) /\ Remember(body) /\ UNCHANGED <<score, bands, scan>>

SeqNext == SeqPostScore

SeqSpec == Init /\ [][SeqNext]_vars

(***************************************************************************)
(* What the specification document says, stated without the program's      *)
(* tables: the subscale items (1-based, as in the published scale) and the *)
(* severity bands.                                                         *)
(***************************************************************************)
SpecDepression == {3, 5, 10, 13, 16, 17, 21}
SpecAnxiety == {2, 4, 7, 9, 15, 19, 20}
SpecStress == {1, 6, 8, 11, 12, 14, 18}

RECURSIVE SetSum(_, _)
SetSum(a, S) ==
    IF S = {} THEN 0
    ELSE LET p == CHOOSE q \in S : TRUE IN a[p] + SetSum(a, S \ {p})

SpecBand(s, normal, mild, moderate, severe) ==
    IF s <= normal THEN "Normal"
    ELSE IF s <= mild THEN "Mild"
    ELSE IF s <= moderate THEN "Moderate"
    ELSE IF s <= severe THEN "Severe"
    ELSE "Extremely Severe"
SpecDepressionLabel(s) == SpecBand(s, 4, 6, 10, 13)
SpecAnxietyLabel(s) == SpecBand(s, 3, 5, 7, 9)
SpecStressLabel(s) == SpecBand(s, 7, 9, 12, 16)

WellFormed(answers) ==
    Len(answers) = 21 /\ \A k \in 1..Len(answers) : answers[k] \in 0..3
AgeAccepted(body) == body.age = None \/ body.age[1] \in 5..120
ValidRequest(body) == WellFormed(body.answers) /\ AgeAccepted(body)
Posted == request # NoRequest
IsResult == response.kind = "result"

ScoringFields ==
    {"depression_score", "anxiety_score", "stress_score", "depression_severity",
     "anxiety_severity", "stress_severity", "total_score"}
Scoring(r) == [f \in ScoringFields |-> r[f]]
MetadataFields == {"student_name", "student_email", "age", "context"}
\* the positions an index list names
Positions(idx) == {idx[k] : k \in 1..Len(idx)}

\* the bands of a table whose inclusive range holds the score
Holding(s, table) == {k \in 1..Len(table) : table[k][1] <= s /\ s <= table[k][2]}

AllZeros == [i \in 1..21 |-> 0]
AllThrees == [i \in 1..21 |-> 3]

(***************************************************************************)
(* C1 as stated: every posted request whose answers list has a length      *)
(* other than 21 or holds a value outside {0,1,2,3} ends in the HTTP 400   *)
(* error of score_dass, with no result and no create_document call.        *)
(***************************************************************************)
C1_RejectedWith400 ==
    (Posted /\ ~WellFormed(request.answers)) =>
        /\ response.kind = "http_exception"
        /\ response.status_code = 400
        /\ calls = <<>>

(***************************************************************************)
(* C1 as amended: every such request is rejected with no result and no     *)
(* create_document call; a list of another length is refused by the        *)
(* DASSAssessment schema before score_dass runs (a validation error), and  *)
(* score_dass raises its HTTP 400 exactly for the bodies the schema        *)
(* accepts whose 21 answers hold a value outside {0,1,2,3}.                *)
(***************************************************************************)
C1_Rejected ==
    (Posted /\ ~WellFormed(request.answers)) =>
        /\ response.kind \in {"validation_error", "http_exception"}
        /\ calls = <<>>
        /\ (Len(request.answers) # 21 => response.kind = "validation_error")
        /\ (Len(request.answers) = 21 /\ AgeAccepted(request) =>
                response.kind = "http_exception" /\ response.status_code = 400)

\* C1's case: 21 answers, one of them 4, answered with the HTTP 400 error
C1_Witness ==
    /\ Posted
    /\ Len(request.answers) = 21
    /\ \E k \in 1..21 : request.answers[k] = 4
    /\ response.kind = "http_exception"
    /\ response.status_code = 400
    /\ calls = <<>>

(***************************************************************************)
(* C2: a valid request is answered with a result whether create_document   *)
(* succeeds or raises; the scoring fields are those computed from the      *)
(* answers in both cases; assessment_id is unset when it raised and is the *)
(* identity it returned otherwise.                                         *)
(***************************************************************************)
C2_ResultDespitePersistence ==
    (Posted /\ ValidRequest(request)) =>
        /\ IsResult
        /\ Len(calls) = 1
        /\ calls[1].fn = "create_document"
        /\ Scoring(response.result) = Scoring(result_of(request.answers))
        /\ (calls[1].raised => response.result.assessment_id = None)
        /\ (~calls[1].raised =>
                /\ calls[1].returned # None
                /\ response.result.assessment_id = calls[1].returned)

\* C2's case: create_document raised and the result came back without identity
C2_Witness ==
    /\ Posted
    /\ ValidRequest(request)
    /\ IsResult
    /\ Len(calls) = 1
    /\ calls[1].raised
    /\ response.result.assessment_id = None
    /\ response.result.total_score > 0

(***************************************************************************)
(* C3: for valid answers total_score is the sum of the 21 answers and      *)
(* equals the sum of the three subscale scores, each subscale score being  *)
(* the sum of the answers of that subscale's seven items.                  *)
(***************************************************************************)
C3_TotalIsSumOfSubscales ==
    (Posted /\ IsResult) =>
        LET r == response.result
            a == request.answers
        IN  /\ r.depression_score = SetSum(a, SpecDepression)
            /\ r.anxiety_score = SetSum(a, SpecAnxiety)
            /\ r.stress_score = SetSum(a, SpecStress)
            /\ r.total_score = SetSum(a, 1..21)
            /\ r.total_score = r.depression_score + r.anxiety_score + r.stress_score

\* C3's case: a scored request whose three subscale sums differ
C3_Witness ==
    /\ Posted
    /\ IsResult
    /\ response.result.depression_score = 9
    /\ response.result.anxiety_score = 11
    /\ response.result.stress_score = 10
    /\ response.result.total_score = 30

(***************************************************************************)
(* C4: DEP_I, ANX_I and STR_I hold seven positions each, are pairwise      *)
(* disjoint and together are exactly the positions 0..20.                  *)
(***************************************************************************)
C4_IndexSetsPartition ==
    /\ Len(DEP_I) = 7 /\ Len(ANX_I) = 7 /\ Len(STR_I) = 7
    /\ Cardinality(Positions(DEP_I)) = 7
    /\ Cardinality(Positions(ANX_I)) = 7
    /\ Cardinality(Positions(STR_I)) = 7
    /\ Positions(DEP_I) \cap Positions(ANX_I) = {}
    /\ Positions(DEP_I) \cap Positions(STR_I) = {}
    /\ Positions(ANX_I) \cap Positions(STR_I) = {}
    /\ Positions(DEP_I) \cup Positions(ANX_I) \cup Positions(STR_I) = 0..20
    /\ (Posted /\ IsResult) =>
            \A p \in 0..20 :
                Cardinality({t \in {DEP_I, ANX_I, STR_I} : p \in Positions(t)}) = 1

\* C4's case: 21 answers of 1 scored, every subscale counting seven of them
C4_Witness ==
    /\ Posted
    /\ IsResult
    /\ request.answers = [i \in 1..21 |-> 1]
    /\ response.result.depression_score = 7
    /\ response.result.anxiety_score = 7
    /\ response.result.stress_score = 7
    /\ response.result.total_score = 21

(***************************************************************************)
(* C5: for every score in 0..21 and each band table exactly one band's     *)
(* inclusive range holds the score; severity_for's scan returns that       *)
(* band's label and does not end in the last-band fallback.                *)
(***************************************************************************)
C5_ExactlyOneBand ==
    scan # None =>
        /\ score \in 0..21
        /\ Cardinality(Holding(score, bands)) = 1
        /\ scan[1].matched \in Holding(score, bands)
        /\ scan[1].label = bands[scan[1].matched][3]
        /\ severity_for(score, bands) = scan[1].label

\* C5's case: score 21, the top of the domain, classified by its only band
C5_Witness ==
    /\ scan # None
    /\ score = 21
    /\ bands = STR_THRESH
    /\ scan[1].matched = 5
    /\ scan[1].label = "Extremely Severe"

(***************************************************************************)
(* C6: the label of each subscale score in 0..21 is the one of the         *)
(* document's band table (Depression 0-4/5-6/7-10/11-13/14-21, Anxiety     *)
(* 0-3/4-5/6-7/8-9/10-21, Stress 0-7/8-9/10-12/13-16/17-21), both for the  *)
(* tables as such and for the labels of every result returned.             *)
(***************************************************************************)
C6_LabelsFollowBandTable ==
    /\ \A s \in 0..21 :
        /\ severity_for(s, DEP_THRESH) = SpecDepressionLabel(s)
        /\ severity_for(s, ANX_THRESH) = SpecAnxietyLabel(s)
        /\ severity_for(s, STR_THRESH) = SpecStressLabel(s)
    /\ (Posted /\ IsResult) =>
        LET r == response.result
        IN  /\ r.depression_severity = SpecDepressionLabel(r.depression_score)
            /\ r.anxiety_severity = SpecAnxietyLabel(r.anxiety_score)
            /\ r.stress_severity = SpecStressLabel(r.stress_score)

\* C6's case: a result at the Normal/Mild boundaries: depression 5 is Mild,
\* anxiety 3 is still Normal
C6_Witness ==
    /\ Posted
    /\ IsResult
    /\ response.result.depression_score = 5
    /\ response.result.depression_severity = "Mild"
    /\ response.result.anxiety_score = 3
    /\ response.result.anxiety_severity = "Normal"
    /\ response.result.stress_score = 4
    /\ response.result.stress_severity = "Normal"

(***************************************************************************)
(* C7: for valid answers every subscale score is in 0..21 and total_score  *)
(* in 0..63; 21 zeros give 0 / Normal three times and total 0, 21 threes   *)
(* give 21 / Extremely Severe three times and total 63.                    *)
(***************************************************************************)
C7_ScoreRanges ==
    (Posted /\ IsResult) =>
        LET r == response.result
        IN  /\ r.depression_score \in 0..21
            /\ r.anxiety_score \in 0..21
            /\ r.stress_score \in 0..21
            /\ r.total_score \in 0..63
            /\ request.answers = AllZeros =>
                 Scoring(r) = [depression_score |-> 0, anxiety_score |-> 0,
                               stress_score |-> 0, depression_severity |-> "Normal",
                               anxiety_severity |-> "Normal",
                               stress_severity |-> "Normal", total_score |-> 0]
            /\ request.answers = AllThrees =>
                 Scoring(r) = [depression_score |-> 21, anxiety_score |-> 21,
                               stress_score |-> 21,
                               depression_severity |-> "Extremely Severe",
                               anxiety_severity |-> "Extremely Severe",
                               stress_severity |-> "Extremely Severe",
                               total_score |-> 63]

\* C7's case: 21 threes scored, the upper extreme
C7_Witness ==
    /\ Posted
    /\ IsResult
    /\ request.answers = AllThrees
    /\ response.result.total_score = 63
    /\ response.result.depression_score = 21

(***************************************************************************)
(* C8: list_assessments always answers with a list: the empty list when    *)
(* get_documents raised, else the documents get_documents returned, in     *)
(* their order (each with its "_id" turned into its string).               *)
(***************************************************************************)
C8_ListNeverFails ==
    (~Posted /\ response # NoResponse) =>
        /\ response.kind = "documents"
        /\ Len(calls) = 1
        /\ calls[1].fn = "get_documents"
        /\ calls[1].collection = "dassassessment"
        /\ (calls[1].raised => response.docs = <<>>)
        /\ (~calls[1].raised =>
                LET got == calls[1].returned
                IN  /\ Len(response.docs) = Len(got)
                    /\ \A k \in 1..Len(got) :
                        /\ DOMAIN response.docs[k] = DOMAIN got[k]
                        /\ \A f \in DOMAIN got[k] \ {"_id"} :
                                response.docs[k][f] = got[k][f]
                        /\ response.docs[k]["_id"] = str(got[k]["_id"]))

\* C8's case: two different stored documents listed in insertion order
C8_Witness ==
    /\ ~Posted
    /\ response.kind = "documents"
    /\ ~calls[1].raised
    /\ Len(response.docs) = 2
    /\ response.docs[1]["_id"] = "oid1"
    /\ response.docs[2]["_id"] = "oid2"
    /\ response.docs[1].answers # response.docs[2].answers

(***************************************************************************)
(* C9: two requests of one sequence that carry the same answers get the    *)
(* same scores, labels and total, whatever was scored in between, whatever *)
(* their metadata and whether or not either was persisted.                 *)
(***************************************************************************)
C9_SameAnswersSameScoring ==
    (Posted /\ IsResult /\ earlier # None) =>
        (earlier[1].request.answers = request.answers =>
            Scoring(earlier[1].result) = Scoring(response.result))

\* C9's case: the same answers scored again after other answers, with other
\* metadata, the earlier scoring persisted and this one not
C9_Witness ==
    /\ Posted
    /\ IsResult
    /\ earlier # None
    /\ earlier[1].request.answers = request.answers
    /\ earlier[1].between
    /\ earlier[1].request.student_name # request.student_name
    /\ earlier[1].result.assessment_id # None
    /\ response.result.assessment_id = None
    /\ Len(store) = 2

(***************************************************************************)
(* C10: a request leads to at most one create_document call, made only for *)
(* a valid request whose result was computed; the document goes to         *)
(* "dassassessment" and holds the request's metadata and answers unchanged *)
(* and the scores, labels and total of the result returned.                *)
(***************************************************************************)
C10_PersistedOnceAsReturned ==
    Posted =>
        /\ Len(calls) <= 1
        /\ (~ValidRequest(request) => calls = <<>>)
        /\ calls # <<>> =>
            LET doc == calls[1].arg
            IN  /\ ValidRequest(request)
                /\ IsResult
                /\ calls[1].fn = "create_document"
                /\ calls[1].collection = "dassassessment"
                /\ DOMAIN doc = MetadataFields \cup {"answers"} \cup ScoringFields
                /\ \A f \in MetadataFields \cup {"answers"} : doc[f] = request[f]
                /\ \A f \in ScoringFields : doc[f] = response.result[f]

\* C10's case: a request with metadata persisted, the stored document holding it
C10_Witness ==
    /\ Posted
    /\ IsResult
    /\ Len(calls) = 1
    /\ ~calls[1].raised
    /\ request.student_name = Some("Ann")
    /\ calls[1].arg.student_name = Some("Ann")
    /\ calls[1].arg.total_score = 33
    /\ store[Len(store)].answers = request.answers

====
